---- MODULE Spec2Model ----
(***************************************************************************)
(* Model of the mapping machinery of elastic_types: the `ip` field mapping *)
(* (src/types/src/ip/mapping.rs), the ser_field! macro                     *)
(* (src/types/src/lib.rs) and the composition of document mappings that    *)
(* the crate documentation of src/types/src/lib.rs describes.              *)
(***************************************************************************)
EXTENDS Integers, Sequences, FiniteSets, TLC

VARIABLES
    impls,     \* which IpMapping implementations the program declares ("all", "some")
    mapping,   \* mapping[c]: the type parameter T of call c's Field<T, IpFormat>
    pc,        \* pc[c]: the statement of serialize() call c is about to execute
    state,     \* state[c]: the entries written to call c's struct serializer
    result,    \* result[c]: what call c returned ("none" while it has not)
    sinkret,   \* sinkret[c]: what the serializer answered to call c's last request
    watch,     \* the mapping whose first finished document is remembered
    first,     \* the first document serialized for the watched mapping
    decl,      \* the document schema the program declares
    path,      \* where in decl the schema being composed sits (<<>>: decl itself)
    stack,     \* the composer's walk: one frame per schema it is inside of
    cpc,       \* the composer: "off", "ready", "walking" or "done"
    mapdoc,    \* the mapping document of the composition that finished last
    outerdoc,  \* the mapping document composed for decl as the root
    endpoint,  \* the transport endpoint function being executed
    req,       \* its RequestParams: base_url, the query string, the headers
    args,      \* its path arguments: index, and metric or _type
    upc,       \* the endpoint function: "off", "idle", "building" or "sent"
    pushed,    \* how many push_str calls it has made
    url_fmtd,  \* its String buffer
    cap,       \* the capacity it asked String::with_capacity for
    sent       \* the requests it has issued through the client

ipvars == <<impls, mapping, pc, state, result, sinkret, watch, first>>
cvars == <<decl, path, stack, cpc, mapdoc, outerdoc>>
uvars == <<endpoint, req, args, upc, pushed, url_fmtd, cap, sent>>
vars == <<impls, mapping, pc, state, result, sinkret, watch, first,
          decl, path, stack, cpc, mapdoc, outerdoc,
          endpoint, req, args, upc, pushed, url_fmtd, cap, sent>>

(***************************************************************************)
(* Values handed to the serializer.  Every value is a record of the same   *)
(* shape; `ty` says which component carries it.  An f32 is kept in tenths. *)
(***************************************************************************)
F32(n) == [ty |-> "f32", n |-> n, b |-> FALSE, s |-> "", o |-> <<>>]
Bool(b) == [ty |-> "bool", n |-> 0, b |-> b, s |-> "", o |-> <<>>]
Str(s) == [ty |-> "str", n |-> 0, b |-> FALSE, s |-> s, o |-> <<>>]
Ipv4Addr(s) == [ty |-> "ip_addr", n |-> 0, b |-> FALSE, s |-> s, o |-> <<>>]
Object(entries) == [ty |-> "object", n |-> 0, b |-> FALSE, s |-> "", o |-> entries]

None == [some |-> FALSE, val |-> Str("")]
Some(v) == [some |-> TRUE, val |-> v]
Option(S) == {None} \cup {Some(v) : v \in S}
NoDoc == [ty |-> "none", n |-> 0, b |-> FALSE, s |-> "", o |-> <<>>]

(***************************************************************************)
(* trait IpMapping: five accessors, each with a default body.              *)
(***************************************************************************)
Knobs == {"boost", "doc_values", "index", "null_value", "store"}

KnobValues(k) ==
    CASE k = "boost" -> {F32(10), F32(15)}
      [] k = "null_value" -> {Ipv4Addr("127.0.0.1")}
      [] OTHER -> {Bool(TRUE), Bool(FALSE)}

\* a default accessor that answers a value (doc_values claims `true` as default)
IpMapping_default_DocValuesSet(k) ==
    IF k = "doc_values" THEN Some(Bool(TRUE)) ELSE None

\* the default body of accessor k
IpMapping_default(k) == None

\* impl IpMapping for DefaultIpMapping {}
DefaultIpMapping == [k \in Knobs |-> IpMapping_default(k)]

\* the documented MyIpMapping: only boost() is overridden, to Some(1.5)
MyIpMapping == [DefaultIpMapping EXCEPT !["boost"] = Some(F32(15))]

\* what an implementation may make accessor k return
Overrides(k) == {IpMapping_default(k)} \cup Option(KnobValues(k))

\* every implementation: each accessor either inherited or overridden
IpMappings ==
    {[boost |-> b, doc_values |-> d, index |-> i, null_value |-> n, store |-> s] :
        b \in Overrides("boost"), d \in Overrides("doc_values"),
        i \in Overrides("index"), n \in Overrides("null_value"),
        s \in Overrides("store")}

\* a data_type() that an override of boost() changes
data_type_Overridable(T) == IF T["boost"].some THEN "ip_range" ELSE "ip"

\* FieldMapping<IpFormat>::data_type for T: IpMapping
data_type(T) == "ip"

(***************************************************************************)
(* The underlying serde serializer: each request is answered Ok or Err(e). *)
(***************************************************************************)
SinkErrors == {"io", "custom"}
SinkResults == {"Ok"} \cup SinkErrors

\* try!(state.serialize_field(k, v)) with the serializer answering r
serialize_field(s, k, v, r) ==
    IF r = "Ok" THEN [state |-> Append(s, <<k, v>>), ret |-> "continue", asked |-> TRUE]
    ELSE [state |-> s, ret |-> r, asked |-> TRUE]

\* what Elasticsearch assumes for a knob that the mapping leaves out, as the
\* comments on the accessors state it
EngineDefault(k) ==
    CASE k = "boost" -> F32(10)
      [] k = "doc_values" -> Bool(TRUE)
      [] k = "index" -> Bool(TRUE)
      [] k = "store" -> Bool(FALSE)
      [] OTHER -> NoDoc

\* ser_field! that leaves out a value equal to the engine's default
ser_field_SuppressDefault(s, h, f, r) ==
    IF f.some /\ f.val # EngineDefault(h) THEN serialize_field(s, h, f.val, r)
    ELSE [state |-> s, ret |-> "continue", asked |-> FALSE]

\* ser_field! that writes a set knob twice
ser_field_Twice(s, h, f, r) ==
    IF f.some
    THEN serialize_field(serialize_field(s, h, f.val, "Ok").state, h, f.val, r)
    ELSE [state |-> s, ret |-> "continue", asked |-> FALSE]

\* ser_field! without the `if let Some`: an unset knob is written as null
ser_field_EmitNull(s, h, f, r) ==
    serialize_field(s, h, IF f.some THEN f.val ELSE Str("null"), r)

\* ser_field! without the try!: the serializer's error is dropped
ser_field_Swallow(s, h, f, r) ==
    IF f.some /\ r = "Ok" THEN serialize_field(s, h, f.val, r)
    ELSE [state |-> s, ret |-> "continue", asked |-> f.some]

\* ser_field!(state, h, f): if let Some(f) = $f { try!(serialize it) }.
\* lib.rs states the macro in its four-argument form (serializer, state, value,
\* name, writing through serialize_struct_elt); mapping.rs invokes it with the
\* state, the key and the value.  In both forms key h is written with f exactly
\* when f is Some, and an Err of the write is returned by try!.
ser_field(s, h, f, r) ==
    IF f.some THEN serialize_field(s, h, f.val, r)
    ELSE [state |-> s, ret |-> "continue", asked |-> FALSE]

(***************************************************************************)
(* Serialize for Field<T, IpFormat>: the statements of serialize(), in     *)
(* program order.                                                          *)
(***************************************************************************)
\* the knobs written in the order the trait declares its accessors
Steps_DeclaredOrder ==
    <<"struct", "type", "boost", "doc_values", "index", "null_value", "store", "end">>

Steps == <<"struct", "type", "boost", "doc_values", "index", "store", "null_value", "end">>

StepIndex(p) == CHOOSE i \in 1..Len(Steps) : Steps[i] = p
After(p) == IF StepIndex(p) = Len(Steps) THEN "done" ELSE Steps[StepIndex(p) + 1]

\* the accessors called with index and store exchanged
Accessor_Swapped(T, h) ==
    CASE h = "index" -> T["store"]
      [] h = "store" -> T["index"]
      [] OTHER -> T[h]

\* the accessor whose value ser_field! is given under key h
Accessor(T, h) == T[h]

Calls == {"c1", "c2"}

\* every call writes into the struct serializer of the first call
StateOf_Shared(c) == "c1"

\* the struct serializer a call writes to: its own local `state`
StateOf(c) == c

\* a struct serializer that starts from the document remembered earlier
StructInit_Cached == IF first.ty = "object" THEN first.o ELSE <<>>

\* the number of fields serialize_struct("mapping", 6) is told to expect
StructLen == 6

\* the struct serializer as serialize_struct("mapping", 6) hands it over
StructInit == <<>>

\* the mappings serialized from several threads at once
ConcMappings ==
    {DefaultIpMapping, MyIpMapping,
     [k \in Knobs |-> IF k \in {"store", "null_value"}
                      THEN Some(CHOOSE v \in KnobValues(k) : TRUE) ELSE None]}

\* the implementations of IpMapping in the program
Declared(u) == IF u = "all" THEN IpMappings ELSE ConcMappings

\* serialize() of call c returns Err(e)
Fail(c, e) ==
    /\ pc' = [pc EXCEPT ![c] = "done"]
    /\ result' = [result EXCEPT ![c] = e]
    /\ sinkret' = [sinkret EXCEPT ![c] = e]

\* Field::<T, IpFormat>::serialize is entered for some mapping T
Call(c) ==
    /\ pc[c] = "idle"
    /\ \E T \in Declared(impls) : mapping' = [mapping EXCEPT ![c] = T]
    /\ pc' = [pc EXCEPT ![c] = "struct"]
    /\ UNCHANGED <<impls, state, result, sinkret, watch, first>>
    /\ UNCHANGED cvars
    /\ UNCHANGED uvars

\* let mut state = try!(serializer.serialize_struct("mapping", 6));
SerializeStruct(c) ==
    /\ pc[c] = "struct"
    /\ \E r \in SinkResults :
        IF r = "Ok"
        THEN /\ state' = [state EXCEPT ![StateOf(c)] = StructInit]
             /\ pc' = [pc EXCEPT ![c] = After("struct")]
             /\ sinkret' = [sinkret EXCEPT ![c] = r]
             /\ UNCHANGED result
        ELSE Fail(c, r) /\ UNCHANGED state
    /\ UNCHANGED <<impls, mapping, watch, first>>
    /\ UNCHANGED cvars
    /\ UNCHANGED uvars

\* what a step leaves behind, given the outcome of its write
Continue(c, res, r) ==
    /\ state' = [state EXCEPT ![StateOf(c)] = res.state]
    /\ IF res.ret = "continue"
       THEN /\ pc' = [pc EXCEPT ![c] = After(pc[c])]
            /\ sinkret' = [sinkret EXCEPT ![c] = IF res.asked THEN r ELSE @]
            /\ UNCHANGED result
       ELSE Fail(c, res.ret)

\* try!(state.serialize_field("type", T::data_type()));
SerializeType(c) ==
    /\ pc[c] = "type"
    /\ \E r \in SinkResults :
        Continue(c, serialize_field(state[StateOf(c)], "type",
                                    Str(data_type(mapping[c])), r), r)
    /\ UNCHANGED <<impls, mapping, watch, first>>
    /\ UNCHANGED cvars
    /\ UNCHANGED uvars

\* ser_field!(state, "<knob>", T::<knob>());
SerializeKnob(c) ==
    /\ pc[c] \in Knobs
    /\ \E r \in SinkResults :
        Continue(c, ser_field(state[StateOf(c)], pc[c],
                              Accessor(mapping[c], pc[c]), r), r)
    /\ UNCHANGED <<impls, mapping, watch, first>>
    /\ UNCHANGED cvars
    /\ UNCHANGED uvars

\* state.end()
End(c) ==
    /\ pc[c] = "end"
    /\ \E r \in SinkResults :
        IF r = "Ok"
        THEN /\ pc' = [pc EXCEPT ![c] = "done"]
             /\ result' = [result EXCEPT ![c] = "Ok"]
             /\ sinkret' = [sinkret EXCEPT ![c] = r]
             /\ first' = IF mapping[c] = watch /\ first = NoDoc
                         THEN Object(state[StateOf(c)]) ELSE first
        ELSE Fail(c, r) /\ UNCHANGED first
    /\ UNCHANGED <<impls, mapping, state, watch>>
    /\ UNCHANGED cvars
    /\ UNCHANGED uvars

\* the caller has taken the result; the locals of the call are gone
Return(c) ==
    /\ pc[c] = "done"
    /\ pc' = [pc EXCEPT ![c] = "idle"]
    /\ state' = [state EXCEPT ![StateOf(c)] = <<>>]
    /\ result' = [result EXCEPT ![c] = "none"]
    /\ sinkret' = [sinkret EXCEPT ![c] = "none"]
    /\ UNCHANGED <<impls, mapping, watch, first>>
    /\ UNCHANGED cvars
    /\ UNCHANGED uvars

\* no endpoint function is in use
IdleClient ==
    /\ endpoint = [mod |-> "", fn |-> ""]
    /\ req = [base_url |-> "", url_qry |-> "", headers |-> ""]
    /\ args = [index |-> "", arg |-> ""]
    /\ upc = "off"
    /\ pushed = 0
    /\ url_fmtd = ""
    /\ cap = 0
    /\ sent = <<>>

IdleComposer ==
    /\ decl = <<>>
    /\ path = <<>>
    /\ stack = <<>>
    /\ cpc = "off"
    /\ mapdoc = NoDoc
    /\ outerdoc = NoDoc

InitCalls(active, universe) ==
    /\ impls = universe
    /\ mapping = [c \in Calls |-> DefaultIpMapping]
    /\ pc = [c \in Calls |-> IF c \in active THEN "idle" ELSE "off"]
    /\ state = [c \in Calls |-> <<>>]
    /\ result = [c \in Calls |-> "none"]
    /\ sinkret = [c \in Calls |-> "none"]
    /\ watch \in ConcMappings
    /\ first = NoDoc

Init == InitCalls({"c1"}, "all") /\ IdleComposer /\ IdleClient
InitConc == InitCalls(Calls, "some") /\ IdleComposer /\ IdleClient

Next ==
    \E c \in Calls :
        \/ Call(c)
        \/ SerializeStruct(c)
        \/ SerializeType(c)
        \/ SerializeKnob(c)
        \/ End(c)
        \/ Return(c)

Spec == Init /\ [][Next]_vars
SpecConc == InitConc /\ [][Next]_vars

(***************************************************************************)
(* serialize() run on its own with a serializer that accepts everything:   *)
(* the entries written by its first i statements, and the whole document.  *)
(***************************************************************************)
RECURSIVE SerializeUpTo(_, _)
SerializeUpTo(T, i) ==
    IF i = 0 THEN <<>>
    ELSE LET s == SerializeUpTo(T, i - 1)
             p == Steps[i]
         IN  CASE p = "struct" -> StructInit
               [] p = "type" -> serialize_field(s, "type", Str(data_type(T)), "Ok").state
               [] p = "end" -> s
               [] OTHER -> ser_field(s, p, Accessor(T, p), "Ok").state

serialize(T) == Object(SerializeUpTo(T, Len(Steps)))

(***************************************************************************)
(* Document schemas and their composition into a mapping document.  A      *)
(* schema is a sequence of fields; a field is a leaf of some semantic type *)
(* or an object whose type is again a schema.                              *)
(***************************************************************************)
LeafField(name, t) == [name |-> name, kind |-> "leaf", leaf |-> t, fields |-> <<>>]
ObjectField(name, inner) == [name |-> name, kind |-> "object", leaf |-> "", fields |-> inner]

Num(n) == [ty |-> "num", n |-> n, b |-> FALSE, s |-> "", o |-> <<>>]

\* the Mapping Serializer's document for a leaf of semantic type t
LeafMapping(t) ==
    CASE t = "ip" -> serialize(DefaultIpMapping)
      [] t = "date" ->
            Object(<< <<"type", Str("date")>>, <<"format", Str("basic_date_time")>> >>)
      [] t = "string" ->
            Object(<< <<"type", Str("text")>>,
                      <<"fields", Object(<< <<"keyword",
                          Object(<< <<"type", Str("keyword")>>,
                                    <<"ignore_above", Num(256)>> >>)>> >>)>> >>)
      [] OTHER -> Object(<< <<"type", Str(t)>> >>)

\* the schemas of the documentation
MyType == <<LeafField("my_date", "date"), LeafField("my_num", "integer")>>
MyOtherType == <<ObjectField("my_type", MyType)>>
IdTitle == <<LeafField("id", "integer"), LeafField("title", "text")>>
GeoIp == <<LeafField("ip", "ip"), LeafField("loc", "geo_point")>>
WithGeoIp == <<LeafField("title", "string"), ObjectField("geoip", GeoIp)>>
DocSchemas == {MyType, MyOtherType, IdTitle, GeoIp, WithGeoIp}

\* the largest number of fields, nested ones included, of a generated schema
MaxFields == 4
GenNames == {"id", "geoip"}
GenLeafTypes == {"integer", "ip"}

\* the schemas with n fields in all whose top-level names avoid `used`
RECURSIVE SchemasOfSize(_, _)
SchemasOfSize(n, used) ==
    IF n = 0 THEN {<<>>}
    ELSE UNION {UNION {
            {<<f>> \o rest :
                f \in (IF k = 1 THEN {LeafField(name, t) : t \in GenLeafTypes} ELSE {})
                      \cup {ObjectField(name, inner) : inner \in SchemasOfSize(k - 1, {})},
                rest \in SchemasOfSize(n - k, used \cup {name})}
            : name \in GenNames \ used} : k \in 1..n}

Schemas == DocSchemas \cup UNION {SchemasOfSize(n, {}) : n \in 0..MaxFields}

\* the positions of the object fields of a schema, at every depth
RECURSIVE NestedPaths(_)
NestedPaths(schema) ==
    UNION {{<<i>>} \cup {<<i>> \o q : q \in NestedPaths(schema[i].fields)}
           : i \in {j \in DOMAIN schema : schema[j].kind = "object"}}

RECURSIVE SchemaAt(_, _)
SchemaAt(schema, p) ==
    IF p = <<>> THEN schema ELSE SchemaAt(schema[Head(p)].fields, Tail(p))

Frame(schema) == [schema |-> schema, idx |-> 1, props |-> <<>>]
Top == stack[Len(stack)]

\* a walk that takes a schema without fields for unfinished
FrameDone_NonEmpty(fr) == fr.idx > Len(fr.schema) /\ Len(fr.schema) > 0

\* every field of the frame's schema has been composed
FrameDone(fr) == fr.idx > Len(fr.schema)

\* a merge that puts the newest fragment first
Merge_Prepend(props, name, doc) == <<<<name, doc>>>> \o props

\* merge one field's fragment into `properties`, keyed by the field's name
Merge(props, name, doc) == Append(props, <<name, doc>>)

\* a nested object that lacks its "type"
NestedDoc_NoType(props) == Object(<< <<"properties", Object(props)>> >>)

\* {"type": "nested", "properties": {...}}
NestedDoc(props) ==
    Object(<< <<"type", Str("nested")>>, <<"properties", Object(props)>> >>)

\* {"properties": {...}}
RootDoc(props) == Object(<< <<"properties", Object(props)>> >>)

\* TypeMapper::to_string for decl, or for a schema nested in it taken as a root
Compose ==
    /\ cpc \in {"ready", "done"}
    /\ \E p \in IF cpc = "ready" THEN {<<>>} ELSE NestedPaths(decl) \ {path} :
        /\ path' = p
        /\ stack' = <<Frame(SchemaAt(decl, p))>>
    /\ cpc' = "walking"
    /\ mapdoc' = NoDoc
    /\ UNCHANGED <<decl, outerdoc>>
    /\ UNCHANGED ipvars
    /\ UNCHANGED uvars

\* a leaf field: its name with the Mapping Serializer's document
ComposeLeaf ==
    /\ cpc = "walking"
    /\ Top.idx \in DOMAIN Top.schema
    /\ LET f == Top.schema[Top.idx] IN
        /\ f.kind = "leaf"
        /\ stack' = [stack EXCEPT ![Len(stack)] =
                        [@ EXCEPT !.props = Merge(@, f.name, LeafMapping(f.leaf)),
                                  !.idx = @ + 1]]
    /\ UNCHANGED <<decl, path, cpc, mapdoc, outerdoc>>
    /\ UNCHANGED ipvars
    /\ UNCHANGED uvars

\* a field that is a schema: compose the inner schema first
EnterNested ==
    /\ cpc = "walking"
    /\ Top.idx \in DOMAIN Top.schema
    /\ LET f == Top.schema[Top.idx] IN
        /\ f.kind = "object"
        /\ stack' = Append(stack, Frame(f.fields))
    /\ UNCHANGED <<decl, path, cpc, mapdoc, outerdoc>>
    /\ UNCHANGED ipvars
    /\ UNCHANGED uvars

\* the inner schema is composed: merge it as a nested object
ExitNested ==
    /\ cpc = "walking"
    /\ Len(stack) > 1
    /\ FrameDone(Top)
    /\ LET parent == stack[Len(stack) - 1]
           f == parent.schema[parent.idx]
       IN  stack' = [SubSeq(stack, 1, Len(stack) - 1) EXCEPT ![Len(stack) - 1] =
                        [@ EXCEPT !.props = Merge(@, f.name, NestedDoc(Top.props)),
                                  !.idx = @ + 1]]
    /\ UNCHANGED <<decl, path, cpc, mapdoc, outerdoc>>
    /\ UNCHANGED ipvars
    /\ UNCHANGED uvars

\* the root schema is composed: the mapping document is complete
Finish ==
    /\ cpc = "walking"
    /\ Len(stack) = 1
    /\ FrameDone(Top)
    /\ mapdoc' = RootDoc(Top.props)
    /\ outerdoc' = IF path = <<>> THEN RootDoc(Top.props) ELSE outerdoc
    /\ cpc' = "done"
    /\ stack' = <<>>
    /\ UNCHANGED <<decl, path>>
    /\ UNCHANGED ipvars
    /\ UNCHANGED uvars

InitObj ==
    /\ decl \in Schemas
    /\ path = <<>>
    /\ stack = <<>>
    /\ cpc = "ready"
    /\ mapdoc = NoDoc
    /\ outerdoc = NoDoc
    /\ impls = "some"
    /\ mapping = [c \in Calls |-> DefaultIpMapping]
    /\ pc = [c \in Calls |-> "off"]
    /\ state = [c \in Calls |-> <<>>]
    /\ result = [c \in Calls |-> "none"]
    /\ sinkret = [c \in Calls |-> "none"]
    /\ watch = DefaultIpMapping
    /\ first = NoDoc
    /\ IdleClient

NextObj == Compose \/ ComposeLeaf \/ EnterNested \/ ExitNested \/ Finish

SpecObj == InitObj /\ [][NextObj]_vars

(***************************************************************************)
(* Vocabulary of the properties.                                           *)
(***************************************************************************)
Count(s, k) == Cardinality({i \in DOMAIN s : s[i][1] = k})
ValueOf(s, k) == s[CHOOSE i \in DOMAIN s : s[i][1] = k][2]
Finished(c) == pc[c] = "done" /\ result[c] = "Ok"
\* statement p of call c has been executed without an error
Passed(c, p) ==
    \/ Finished(c)
    \/ pc[c] \in Knobs \cup {"type", "end"} /\ StepIndex(p) < StepIndex(pc[c])
TypeEntry == <<"type", Str("ip")>>

\* C1: whatever accessors a mapping overrides, the object starts with the
\* key "type", the key occurs exactly once, and its value is "ip".
C1_TypeFirstIp ==
    \A c \in Calls :
        /\ state[c] # <<>> => state[c][1] = TypeEntry
        /\ Count(state[c], "type") <= 1
        /\ Passed(c, "type") => Count(state[c], "type") = 1

C1_Witness ==
    \E c \in Calls : Finished(c) /\ \A k \in Knobs : mapping[c][k].some

\* C2: once a knob's statement has run, its key is in the output exactly when
\* the accessor returned Some(v), once, and with that v; the other knobs play
\* no part in it.
C2_KnobIffSome ==
    \A c \in Calls : \A k \in Knobs :
        Passed(c, k) =>
            /\ Count(state[c], k) = IF mapping[c][k].some THEN 1 ELSE 0
            /\ mapping[c][k].some => ValueOf(state[c], k) = mapping[c][k].val

C2_Witness ==
    \E c \in Calls :
        /\ Finished(c)
        /\ mapping[c]["index"] = Some(Bool(FALSE))
        /\ mapping[c]["store"] = None
        /\ mapping[c]["doc_values"] = Some(Bool(TRUE))

\* C3: DefaultIpMapping leaves every knob unset and serializes to exactly
\* {"type":"ip"}.
C3_DefaultOnlyType ==
    \A c \in Calls :
        Finished(c) /\ mapping[c] = DefaultIpMapping =>
            /\ \A k \in Knobs : ~mapping[c][k].some
            /\ state[c] = <<TypeEntry>>

C3_Witness ==
    \E c \in Calls : Finished(c) /\ mapping[c] = DefaultIpMapping

\* C4: a mapping that overrides only boost() to Some(v) serializes to exactly
\* {"type":"ip","boost":v}, "type" first; MyIpMapping gives boost 1.5.
C4_OnlyBoost ==
    \A c \in Calls :
        /\ \A v \in KnobValues("boost") :
            Finished(c) /\ mapping[c] = [k \in Knobs |-> IF k = "boost" THEN Some(v) ELSE None]
                => state[c] = <<TypeEntry, <<"boost", v>> >>
        /\ Finished(c) /\ mapping[c] = MyIpMapping
                => state[c] = <<TypeEntry, <<"boost", F32(15)>> >>

C4_Witness ==
    \E c \in Calls : Finished(c) /\ mapping[c] = MyIpMapping /\ Len(state[c]) = 2

C9_Inv ==
    \A c \in Calls :
        /\ sinkret[c] \in SinkErrors => pc[c] = "done" /\ result[c] = sinkret[c]
        /\ result[c] \in SinkErrors => pc[c] = "done" /\ sinkret[c] = result[c]
        /\ pc[c] = "done" /\ sinkret[c] = "Ok" => result[c] = "Ok"
        /\ result[c] = "Ok" => pc[c] = "done" /\ sinkret[c] = "Ok"

C9_Step ==
    \A c \in Calls :
        /\ pc[c] \in Knobs /\ ~mapping[c][pc[c]].some /\ pc'[c] # pc[c] =>
              /\ state'[c] = state[c]
              /\ sinkret'[c] = sinkret[c]
              /\ pc'[c] = After(pc[c])
        /\ pc'[c] = "done" /\ result'[c] \in SinkErrors => state'[c] = state[c]
        /\ pc[c] = "done" /\ pc'[c] = "done" =>
              state'[c] = state[c] /\ result'[c] = result[c]

\* C9: an error of the underlying serializer at any statement ends the call at
\* once with that error and nothing more is written; with no error the call
\* returns Ok; an unset knob asks nothing of the serializer.
C9_ErrorPropagates == [](C9_Inv) /\ [][C9_Step]_vars

C9_Witness ==
    \E c \in Calls :
        /\ pc[c] = "done"
        /\ result[c] \in SinkErrors
        /\ Len(state[c]) = 2
        /\ mapping[c]["null_value"].some
        /\ mapping[c]["boost"].some

C10_Inv ==
    \A c \in Calls :
        /\ pc[c] \in Knobs \cup {"type", "end"} =>
              state[c] = SerializeUpTo(mapping[c], StepIndex(pc[c]) - 1)
        /\ Finished(c) => Object(state[c]) = serialize(mapping[c])
        /\ pc[c] = "done" =>
              \E i \in 0..Len(Steps) : state[c] = SerializeUpTo(mapping[c], i)

C10_Step ==
    \A c \in Calls : state'[c] # state[c] => pc'[c] # pc[c]

\* C10: with the statements of several calls interleaved, each call writes to
\* its own struct serializer only and what it has written is what it writes
\* when it runs alone.
C10_CallsIsolated == [](C10_Inv) /\ [][C10_Step]_vars

C10_Witness ==
    /\ pc["c1"] = "doc_values"
    /\ pc["c2"] = "end"
    /\ mapping["c1"] = MyIpMapping
    /\ mapping["c2"] # MyIpMapping
    /\ Len(state["c2"]) = 3

\* the value under `properties` of an object, as a sequence of entries
PropsOf(doc) ==
    IF \E i \in DOMAIN doc.o : doc.o[i][1] = "properties"
    THEN ValueOf(doc.o, "properties").o ELSE <<>>

\* the entry a mapping document holds for the field at position p of its schema
RECURSIVE EntryAt(_, _)
EntryAt(doc, p) ==
    LET entries == PropsOf(doc) IN
    IF Head(p) \notin DOMAIN entries THEN NoDoc
    ELSE IF Len(p) = 1 THEN entries[Head(p)][2]
    ELSE EntryAt(entries[Head(p)][2], Tail(p))

Root == SchemaAt(decl, path)
TypeOnly(t) == Object(<< <<"type", Str(t)>> >>)

\* C5: the composed document is {"properties": ...} with one entry per field
\* of the schema, keyed by the field's name, in schema order, every leaf entry
\* being the Mapping Serializer's document for the leaf's type.
C5_OneEntryPerField ==
    cpc = "done" =>
        /\ mapdoc.ty = "object"
        /\ Len(mapdoc.o) = 1
        /\ mapdoc.o[1][1] = "properties"
        /\ mapdoc.o[1][2].ty = "object"
        /\ Len(PropsOf(mapdoc)) = Len(Root)
        /\ \A i \in DOMAIN Root :
            /\ PropsOf(mapdoc)[i][1] = Root[i].name
            /\ Root[i].kind = "leaf" => PropsOf(mapdoc)[i][2] = LeafMapping(Root[i].leaf)
        /\ Root = IdTitle =>
            mapdoc = Object(<< <<"properties",
                        Object(<< <<"id", TypeOnly("integer")>>,
                                  <<"title", TypeOnly("text")>> >>)>> >>)
        /\ Root = MyType =>
            mapdoc = Object(<< <<"properties",
                        Object(<< <<"my_date", Object(<< <<"type", Str("date")>>,
                                        <<"format", Str("basic_date_time")>> >>)>>,
                                  <<"my_num", TypeOnly("integer")>> >>)>> >>)

C5_Witness == cpc = "done" /\ decl = IdTitle /\ path = <<>>

\* C6: the entry of a field whose type is a schema, at any depth, is
\* {"type": "nested", "properties": P} with P the `properties` of the inner
\* schema composed on its own as a root.
C6_NestedEqualsInnerRoot ==
    cpc = "done" /\ path # <<>> =>
        LET e == EntryAt(outerdoc, path) IN
        /\ e.ty = "object"
        /\ Len(e.o) = 2
        /\ e.o[1] = <<"type", Str("nested")>>
        /\ e.o[2][1] = "properties"
        /\ Len(mapdoc.o) = 1
        /\ e.o[2][2] = mapdoc.o[1][2]
        /\ decl = WithGeoIp =>
            e = Object(<< <<"type", Str("nested")>>,
                          <<"properties", Object(<< <<"ip", TypeOnly("ip")>>,
                                                    <<"loc", TypeOnly("geo_point")>> >>)>> >>)

C6_Witness ==
    /\ cpc = "done"
    /\ Len(path) = 3
    /\ Len(Root) = 1
    /\ EntryAt(outerdoc, path) # NoDoc

\* C7: a schema without fields is composed, to exactly {"properties": {}}.
C7_EmptySchema ==
    Root = <<>> =>
        /\ cpc = "walking" /\ Len(stack) = 1 => ENABLED Finish
        /\ cpc = "done" => mapdoc = Object(<< <<"properties", Object(<<>>)>> >>)

C7_Witness == cpc = "done" /\ decl = <<>> /\ mapdoc # NoDoc

KeyOrder == <<"type", "boost", "doc_values", "index", "store", "null_value">>
Rank(k) == CHOOSE i \in 1..Len(KeyOrder) : KeyOrder[i] = k
KeyOf(c, i) == state[c][i][1]
SetKnobs(T) == {k \in Knobs : T[k].some}

\* C11: the knob keys follow "type" in the one order boost, doc_values, index,
\* store, null_value, whichever knobs are set and whatever their values.
C11_FixedKnobOrder ==
    \A c \in Calls : \A i, j \in DOMAIN state[c] :
        /\ KeyOf(c, i) \in Knobs \cup {"type"}
        /\ i < j => Rank(KeyOf(c, i)) < Rank(KeyOf(c, j))

C11_Witness ==
    \E c \in Calls :
        /\ Finished(c)
        /\ [i \in DOMAIN state[c] |-> KeyOf(c, i)] = KeyOrder

\* C12: at every point every emitted key is one of type, boost, doc_values,
\* index, store, null_value, none is emitted twice, and the number of keys is
\* 1 plus the number of set knobs written so far, never more than the 6 given
\* to serialize_struct.
C12_KeysBounded ==
    \A c \in Calls :
        /\ \A i \in DOMAIN state[c] :
              KeyOf(c, i) \in {"type", "boost", "doc_values", "index", "store", "null_value"}
        /\ \A i, j \in DOMAIN state[c] : KeyOf(c, i) = KeyOf(c, j) => i = j
        /\ Len(state[c]) <= 1 + Cardinality(SetKnobs(mapping[c]))
        /\ Len(state[c]) <= StructLen
        /\ Finished(c) => Len(state[c]) = 1 + Cardinality(SetKnobs(mapping[c]))
        /\ Passed(c, "type") /\ pc[c] # "done" =>
              Len(state[c]) = 1 + Cardinality({k \in SetKnobs(mapping[c]) : Passed(c, k)})

C12_Witness ==
    \E c \in Calls :
        /\ pc[c] = "store"
        /\ Len(state[c]) = 4
        /\ Cardinality(SetKnobs(mapping[c])) = 5

\* C13: a knob set to the very value the engine assumes by default is written
\* all the same, so the document differs from that of the mapping which
\* leaves the knob unset.
C13_DefaultValuesEmitted ==
    \A c \in Calls : \A k \in Knobs :
        Finished(c) /\ mapping[c][k] = Some(EngineDefault(k)) =>
            /\ \E i \in DOMAIN state[c] : state[c][i] = <<k, EngineDefault(k)>>
            /\ Object(state[c]) # serialize([mapping[c] EXCEPT ![k] = None])

C13_Witness ==
    \E c \in Calls :
        /\ Finished(c)
        /\ mapping[c]["boost"] = Some(F32(10))
        /\ mapping[c]["doc_values"] = Some(Bool(TRUE))
        /\ mapping[c]["store"] = Some(Bool(FALSE))

(***************************************************************************)
(* The transport endpoint functions of elastic_hyper: each builds its URL  *)
(* in a String of a capacity computed beforehand and issues one request.   *)
(* A string's len() is its number of bytes; the strings here are ASCII.    *)
(***************************************************************************)
Endpoint(m, f) == [mod |-> m, fn |-> f]

Endpoints ==
    {Endpoint("stats", "get"), Endpoint("stats", "get_metric"),
     Endpoint("stats", "get_index"), Endpoint("stats", "get_index_metric"),
     Endpoint("cat::indices", "get"), Endpoint("cat::indices", "get_index"),
     Endpoint("exists_type", "head_index_type")}

BaseUrls == {"", "http://es:9200"}
Queries == {"", "?pretty=true"}
HeaderSets == {"none", "json"}
Indexes == {"i", "logs"}
Metrics == {"docs", "t"}

\* the path arguments the function takes
TakesIndex(ep) == ep.fn \in {"get_index", "get_index_metric", "head_index_type"}
TakesArg(ep) == ep.fn \in {"get_metric", "get_index_metric", "head_index_type"}

\* stats::get_index_metric pushing "/_stats" for "/_stats/"
StatsPath_NoSeparator(f, index, metric) ==
    CASE f = "get_metric" -> <<"/_stats/", metric>>
      [] f = "get_index" -> <<"/", index, "/_stats">>
      [] f = "get_index_metric" -> <<"/", index, "/_stats", metric>>
      [] OTHER -> <<"/_stats">>

\* indices/stats.rs: what is pushed between the base URL and the query
StatsPath(f, index, metric) ==
    CASE f = "get_metric" -> <<"/_stats/", metric>>
      [] f = "get_index" -> <<"/", index, "/_stats">>
      [] f = "get_index_metric" -> <<"/", index, "/_stats/", metric>>
      [] OTHER -> <<"/_stats">>

\* stats::get_index asking for room for "/_stats" but not for the "/"
StatsCapacity_NoSlash(f, base, index, metric, qry) ==
    CASE f = "get_metric" -> Len(base) + 8 + Len(metric) + Len(qry)
      [] f = "get_index" -> Len(base) + 7 + Len(index) + Len(qry)
      [] f = "get_index_metric" -> Len(base) + 1 + 8 + Len(index) + Len(metric) + Len(qry)
      [] OTHER -> Len(base) + 7 + Len(qry)

\* indices/stats.rs: the argument of String::with_capacity
StatsCapacity(f, base, index, metric, qry) ==
    CASE f = "get_metric" -> Len(base) + 8 + Len(metric) + Len(qry)
      [] f = "get_index" -> Len(base) + 1 + 7 + Len(index) + Len(qry)
      [] f = "get_index_metric" -> Len(base) + 1 + 8 + Len(index) + Len(metric) + Len(qry)
      [] OTHER -> Len(base) + 7 + Len(qry)

\* cat/indices.rs: what is pushed between the base URL and the query
CatIndicesPath(f, index) ==
    IF f = "get_index" THEN <<"/_cat/indices/", index>> ELSE <<"/_cat/indices">>

\* cat/indices.rs: the argument of String::with_capacity
CatIndicesCapacity(f, base, index, qry) ==
    IF f = "get_index" THEN Len(base) + 14 + Len(index) + Len(qry)
    ELSE Len(base) + 13 + Len(qry)

\* indices/exists_type.rs: what is pushed between the base URL and the query
ExistsTypePath(index, type) == <<"/", index, "/", type>>

\* indices/exists_type.rs: the argument of String::with_capacity
ExistsTypeCapacity(base, index, type, qry) ==
    Len(base) + 1 + 1 + Len(index) + Len(type) + Len(qry)

\* the push_str arguments of an endpoint function, in program order
Segments(ep, rq, a) ==
    <<rq.base_url>>
    \o (CASE ep.mod = "stats" -> StatsPath(ep.fn, a.index, a.arg)
          [] ep.mod = "cat::indices" -> CatIndicesPath(ep.fn, a.index)
          [] OTHER -> ExistsTypePath(a.index, a.arg))
    \o <<rq.url_qry>>

Capacity(ep, rq, a) ==
    CASE ep.mod = "stats" -> StatsCapacity(ep.fn, rq.base_url, a.index, a.arg, rq.url_qry)
      [] ep.mod = "cat::indices" -> CatIndicesCapacity(ep.fn, rq.base_url, a.index, rq.url_qry)
      [] OTHER -> ExistsTypeCapacity(rq.base_url, a.index, a.arg, rq.url_qry)

\* client.get(..) or client.head(..)
Verb(ep) == IF ep.mod = "exists_type" THEN "HEAD" ELSE "GET"

\* entry of an endpoint function, up to String::with_capacity
Request ==
    /\ upc \in {"idle", "sent"}
    /\ \E ep \in Endpoints, b \in BaseUrls, q \in Queries, h \in HeaderSets,
          i \in Indexes, m \in Metrics :
        LET rq == [base_url |-> b, url_qry |-> q, headers |-> h]
            a == [index |-> IF TakesIndex(ep) THEN i ELSE "",
                  arg |-> IF TakesArg(ep) THEN m ELSE ""]
        IN  /\ endpoint' = ep
            /\ req' = rq
            /\ args' = a
            /\ cap' = Capacity(ep, rq, a)
    /\ url_fmtd' = ""
    /\ pushed' = 0
    /\ sent' = <<>>
    /\ upc' = "building"
    /\ UNCHANGED ipvars
    /\ UNCHANGED cvars

\* url_fmtd.push_str(..)
PushStr ==
    /\ upc = "building"
    /\ pushed < Len(Segments(endpoint, req, args))
    /\ url_fmtd' = url_fmtd \o Segments(endpoint, req, args)[pushed + 1]
    /\ pushed' = pushed + 1
    /\ UNCHANGED <<endpoint, req, args, upc, cap, sent>>
    /\ UNCHANGED ipvars
    /\ UNCHANGED cvars

\* let res = client.<verb>(&url_fmtd).headers(req.headers); res.send()
Send ==
    /\ upc = "building"
    /\ pushed = Len(Segments(endpoint, req, args))
    /\ sent' = Append(sent, [verb |-> Verb(endpoint), url |-> url_fmtd,
                             headers |-> req.headers])
    /\ upc' = "sent"
    /\ UNCHANGED <<endpoint, req, args, pushed, url_fmtd, cap>>
    /\ UNCHANGED ipvars
    /\ UNCHANGED cvars

InitUrl ==
    /\ endpoint = [mod |-> "", fn |-> ""]
    /\ req = [base_url |-> "", url_qry |-> "", headers |-> ""]
    /\ args = [index |-> "", arg |-> ""]
    /\ upc = "idle"
    /\ pushed = 0
    /\ url_fmtd = ""
    /\ cap = 0
    /\ sent = <<>>
    /\ impls = "some"
    /\ mapping = [c \in Calls |-> DefaultIpMapping]
    /\ pc = [c \in Calls |-> "off"]
    /\ state = [c \in Calls |-> <<>>]
    /\ result = [c \in Calls |-> "none"]
    /\ sinkret = [c \in Calls |-> "none"]
    /\ watch = DefaultIpMapping
    /\ first = NoDoc
    /\ IdleComposer

NextUrl == Request \/ PushStr \/ Send

SpecUrl == InitUrl /\ [][NextUrl]_vars

\* the URL each endpoint function is to request
ExpectedUrl ==
    LET b == req.base_url
        q == req.url_qry
        i == args.index
        a == args.arg
        f == endpoint.fn
    IN  CASE endpoint.mod = "stats" /\ f = "get" -> b \o "/_stats" \o q
          [] endpoint.mod = "stats" /\ f = "get_metric" -> b \o "/_stats/" \o a \o q
          [] endpoint.mod = "stats" /\ f = "get_index" -> b \o "/" \o i \o "/_stats" \o q
          [] endpoint.mod = "stats" /\ f = "get_index_metric" ->
                b \o "/" \o i \o "/_stats/" \o a \o q
          [] endpoint.mod = "cat::indices" /\ f = "get" -> b \o "/_cat/indices" \o q
          [] endpoint.mod = "cat::indices" /\ f = "get_index" ->
                b \o "/_cat/indices/" \o i \o q
          [] OTHER -> b \o "/" \o i \o "/" \o a \o q

\* C14: each endpoint function issues exactly one request, for the base URL
\* followed by the endpoint's path and the query string, with GET (HEAD for
\* head_index_type) and with req.headers.
C14_OneRequestPerEndpoint ==
    /\ upc = "building" => sent = <<>>
    /\ upc = "sent" =>
        /\ Len(sent) = 1
        /\ sent[1].url = ExpectedUrl
        /\ sent[1].verb = (IF endpoint.fn = "head_index_type" THEN "HEAD" ELSE "GET")
        /\ sent[1].headers = req.headers

C14_Witness ==
    /\ upc = "sent"
    /\ endpoint = Endpoint("stats", "get_index_metric")
    /\ sent[1].url = "http://es:9200/logs/_stats/docs?pretty=true"

\* C15: the capacity asked of String::with_capacity is the length of the
\* finished URL, so the buffer never grows beyond it.
C15_CapacityIsUrlLength ==
    /\ upc \in {"building", "sent"} => Len(url_fmtd) <= cap
    /\ upc = "sent" => cap = Len(sent[1].url)
    /\ upc = "building" /\ pushed = Len(Segments(endpoint, req, args)) =>
          cap = Len(url_fmtd)

C15_Witness ==
    /\ upc = "building"
    /\ endpoint = Endpoint("cat::indices", "get_index")
    /\ pushed = 2
    /\ cap = 30
    /\ Len(url_fmtd) = 14

====
